---- MODULE Spec2Model ----
(***************************************************************************)
(* Model of automator/trace_collector/dm_collector/dm_log_packet/          *)
(* ws_dissector.py: the WSDissector wrapper that launches the external     *)
(* ws_dissector program once and talks to it over stdin/stdout with the    *)
(* AWW protocol (8-byte header, payload; text lines ended by a sentinel).  *)
(* Each statement group of init_proc and decode_msg is one action; the     *)
(* decoder program is the environment at the other end of the two pipes.   *)
(***************************************************************************)
EXTENDS Integers, Sequences, FiniteSets, TLC

\* ------------------------------------------------------------------ bounds
MaxCalls == 3
MaxLines == 2
MaxEofReads == 2

\* ------------------------------------------------------------- call inputs
Callers == {1, 2}
SeqCallers == {1}

Executables == {"ws_dissector", "missing"}
LibraryPaths == {"/ws/lib", "/alt/lib"}
Payloads == {<< >>, <<1, 128, 0>>}

Spawnable(executable) == executable = "ws_dissector"

\* --------------------------------------------------------- class attributes
SUPPORTED_TYPES_BadSib3 ==
    [t \in {"RRC_UL_CCCH", "RRC_UL_DCCH", "RRC_DL_CCCH", "RRC_DL_DCCH",
            "RRC_DL_BCCH_BCH", "RRC_MIB", "RRC_SIB1", "RRC_SIB3", "RRC_SIB5",
            "RRC_SIB7", "RRC_SIB12", "RRC_SIB19", "LTE-RRC_PCCH",
            "LTE-RRC_DL_DCCH", "LTE-RRC_UL_DCCH", "LTE-RRC_BCCH_DL_SCH",
            "LTE-NAS_EPS_PLAIN"} |->
        CASE t = "RRC_UL_CCCH" -> 100
          [] t = "RRC_UL_DCCH" -> 101
          [] t = "RRC_DL_CCCH" -> 102
          [] t = "RRC_DL_DCCH" -> 103
          [] t = "RRC_DL_BCCH_BCH" -> 104
          [] t = "RRC_MIB" -> 150
          [] t = "RRC_SIB1" -> 151
          [] t = "RRC_SIB3" -> 152
          [] t = "RRC_SIB5" -> 155
          [] t = "RRC_SIB7" -> 157
          [] t = "RRC_SIB12" -> 162
          [] t = "RRC_SIB19" -> 169
          [] t = "LTE-RRC_PCCH" -> 200
          [] t = "LTE-RRC_DL_DCCH" -> 201
          [] t = "LTE-RRC_UL_DCCH" -> 202
          [] t = "LTE-RRC_BCCH_DL_SCH" -> 203
          [] t = "LTE-NAS_EPS_PLAIN" -> 250]

SUPPORTED_TYPES_literal ==
    [t \in {"RRC_UL_CCCH", "RRC_UL_DCCH", "RRC_DL_CCCH", "RRC_DL_DCCH",
            "RRC_DL_BCCH_BCH", "RRC_MIB", "RRC_SIB1", "RRC_SIB3", "RRC_SIB5",
            "RRC_SIB7", "RRC_SIB12", "RRC_SIB19", "LTE-RRC_PCCH",
            "LTE-RRC_DL_DCCH", "LTE-RRC_UL_DCCH", "LTE-RRC_BCCH_DL_SCH",
            "LTE-NAS_EPS_PLAIN"} |->
        CASE t = "RRC_UL_CCCH" -> 100
          [] t = "RRC_UL_DCCH" -> 101
          [] t = "RRC_DL_CCCH" -> 102
          [] t = "RRC_DL_DCCH" -> 103
          [] t = "RRC_DL_BCCH_BCH" -> 104
          [] t = "RRC_MIB" -> 150
          [] t = "RRC_SIB1" -> 151
          [] t = "RRC_SIB3" -> 153
          [] t = "RRC_SIB5" -> 155
          [] t = "RRC_SIB7" -> 157
          [] t = "RRC_SIB12" -> 162
          [] t = "RRC_SIB19" -> 169
          [] t = "LTE-RRC_PCCH" -> 200
          [] t = "LTE-RRC_DL_DCCH" -> 201
          [] t = "LTE-RRC_UL_DCCH" -> 202
          [] t = "LTE-RRC_BCCH_DL_SCH" -> 203
          [] t = "LTE-NAS_EPS_PLAIN" -> 250]

MsgTypes == DOMAIN SUPPORTED_TYPES_literal \cup {"UNKNOWN_TYPE"}

\* ------------------------------------------------------------------- text
\* A text is a sequence of one-character strings; a line keeps its "\n".
Sentinel == <<"=", "=", "=", "_", "_", "_", "=", "=", "=">>
NL == "\n"
SentinelLine == Sentinel \o <<NL>>
TextLine == <<"a", NL>>
PrefixLine == Sentinel \o <<"x", NL>>
NonSentinelLines == {TextLine, PrefixLine}
EOFLine == << >>
NoLine == <<"<unset>">>

\* str.startswith
startswith(s, prefix) ==
    /\ Len(s) >= Len(prefix)
    /\ SubSeq(s, 1, Len(prefix)) = prefix

\* "".join(list)
RECURSIVE join(_)
join(list) == IF list = << >> THEN << >> ELSE Head(list) \o join(Tail(list))

\* ------------------------------------------------------------ struct.pack
Pow256(k) == IF k = 0 THEN 1 ELSE IF k = 1 THEN 256
             ELSE IF k = 2 THEN 65536 ELSE 16777216

\* one "I" field in network (big-endian) order
PackU32BE(n) == [i \in 1..4 |-> (n \div Pow256(4 - i)) % 256]
PackU32LE(n) == [i \in 1..4 |-> (n \div Pow256(i - 1)) % 256]

struct_pack_LittleEndian(code, length) == PackU32LE(code) \o PackU32LE(length)

\* struct.pack("!II", code, length)
struct_pack(code, length) == PackU32BE(code) \o PackU32BE(length)

\* ------------------------------------------------------------------ state
VARIABLES
    SUPPORTED_TYPES,     \* class attribute: name -> AWW protocol number
    _proc,               \* class attribute: 0 is None, k >= 1 the k-th child
    _init_proc_called,   \* class attribute
    environ,             \* os.environ of the host
    children,            \* every child spawned so far: [exe, env]
    alive,               \* the child behind _proc is running
    stdinBuf,            \* host-side buffer of _proc.stdin (bufsize=-1)
    stdinPipe,           \* bytes in the pipe to the child's stdin
    stdoutPipe,          \* lines in the pipe from the child's stdout
    dstate,              \* decoder: "idle" or "responding"
    dreq,                \* decoder: requests accepted so far
    dcount,              \* decoder: lines emitted for the current request
    responses,           \* history: per accepted request, [lines, done]
    nreq,                \* history: requests written to _proc.stdin so far
    calls,               \* history: calls started so far
    initFailed,          \* history: some init_proc call ended with OSError
    abandoned,           \* history: requests whose call was interrupted
    pc,                  \* per caller: position in init_proc / decode_msg
    executable_path, ws_library_path, env,         \* init_proc locals
    msg_type, b, input_data, result, line,         \* decode_msg locals
    myReq, rtags, sync,  \* history of the running decode_msg call
    outcome              \* per caller: how its last call ended

classVars == <<SUPPORTED_TYPES, _proc, _init_proc_called>>
procVars == <<children, alive, stdinBuf, stdinPipe, stdoutPipe>>
decVars == <<dstate, dreq, dcount, responses>>
initLocals == <<executable_path, ws_library_path, env>>
decLocals == <<msg_type, b, input_data, result, line>>
histVars == <<myReq, rtags, sync>>
ghostVars == <<initFailed, abandoned>>

vars == <<SUPPORTED_TYPES, _proc, _init_proc_called, environ, children, alive,
          stdinBuf, stdinPipe, stdoutPipe, dstate, dreq, dcount, responses,
          nreq, calls, initFailed, abandoned, pc, executable_path,
          ws_library_path, env, msg_type, b,
          input_data, result, line, myReq, rtags, sync, outcome>>

NoOutcome ==
    [kind |-> "none", val |-> << >>, req |-> 0, tags |-> {}, sync |-> FALSE]
Ended(kind) ==
    [kind |-> kind, val |-> << >>, req |-> 0, tags |-> {}, sync |-> FALSE]

HostEnvironments ==
    { [v \in {"PATH"} |-> "/bin"],
      [v \in {"PATH", "LD_LIBRARY_PATH"} |->
          IF v = "PATH" THEN "/bin" ELSE "/usr/lib"] }

Init ==
    /\ SUPPORTED_TYPES = SUPPORTED_TYPES_literal
    /\ _proc = 0
    /\ _init_proc_called = FALSE
    /\ environ \in HostEnvironments
    /\ children = << >>
    /\ alive = FALSE
    /\ stdinBuf = << >>
    /\ stdinPipe = << >>
    /\ stdoutPipe = << >>
    /\ dstate = "idle"
    /\ dreq = 0
    /\ dcount = 0
    /\ responses = << >>
    /\ nreq = 0
    /\ calls = 0
    /\ initFailed = FALSE
    /\ abandoned = {}
    /\ pc = [c \in Callers |-> "idle"]
    /\ executable_path = [c \in Callers |-> ""]
    /\ ws_library_path = [c \in Callers |-> ""]
    /\ env = [c \in Callers |-> << >>]
    /\ msg_type = [c \in Callers |-> ""]
    /\ b = [c \in Callers |-> << >>]
    /\ input_data = [c \in Callers |-> << >>]
    /\ result = [c \in Callers |-> << >>]
    /\ line = [c \in Callers |-> NoLine]
    /\ myReq = [c \in Callers |-> 0]
    /\ rtags = [c \in Callers |-> {}]
    /\ sync = [c \in Callers |-> FALSE]
    /\ outcome = [c \in Callers |-> NoOutcome]

\* ------------------------------------------------------------- init_proc
\* dict.get(key, default)
dict_get(d, key, default) == IF key \in DOMAIN d THEN d[key] ELSE default

\* a caller enters init_proc(executable_path, ws_library_path)
CallInitProc(c) ==
    /\ pc[c] = "idle"
    /\ calls < MaxCalls
    /\ \E exe \in Executables, lib \in LibraryPaths :
          /\ executable_path' = [executable_path EXCEPT ![c] = exe]
          /\ ws_library_path' = [ws_library_path EXCEPT ![c] = lib]
    /\ msg_type' = [msg_type EXCEPT ![c] = ""]
    /\ b' = [b EXCEPT ![c] = << >>]
    /\ pc' = [pc EXCEPT ![c] = "init_check"]
    /\ calls' = calls + 1
    /\ UNCHANGED ghostVars
    /\ outcome' = [outcome EXCEPT ![c] = NoOutcome]
    /\ UNCHANGED <<classVars, environ, procVars, decVars, nreq, env,
                   input_data, result, line, histVars>>

InitCheck_NoGuard(c) ==
    /\ pc[c] = "init_check"
    /\ pc' = [pc EXCEPT ![c] = "init_env"]
    /\ UNCHANGED <<classVars, environ, procVars, decVars, nreq, calls,
                   ghostVars,
                   
                   initLocals, decLocals, histVars, outcome>>

\* if cls._init_proc_called: return
InitCheck(c) ==
    /\ pc[c] = "init_check"
    /\ IF _init_proc_called
         THEN /\ pc' = [pc EXCEPT ![c] = "idle"]
              /\ outcome' = [outcome EXCEPT ![c] = Ended("InitNoop")]
         ELSE /\ pc' = [pc EXCEPT ![c] = "init_env"]
              /\ UNCHANGED outcome
    /\ UNCHANGED <<classVars, environ, procVars, decVars, nreq, calls,
                   ghostVars,
                   
                   initLocals, decLocals, histVars>>

InitEnv_Appended(c) ==
    /\ pc[c] = "init_env"
    /\ env' = [env EXCEPT ![c] =
                 [v \in DOMAIN environ \cup {"LD_LIBRARY_PATH"} |->
                     IF v = "LD_LIBRARY_PATH"
                     THEN dict_get(environ, "LD_LIBRARY_PATH", "") \o ":"
                            \o ws_library_path[c]
                     ELSE environ[v]]]
    /\ pc' = [pc EXCEPT ![c] = "init_popen"]
    /\ UNCHANGED <<classVars, environ, procVars, decVars, nreq, calls,
                   ghostVars,
                   
                   executable_path, ws_library_path, decLocals, histVars,
                   outcome>>

\* env = dict(os.environ); env["LD_LIBRARY_PATH"] = ws_library_path + ":" + ...
InitEnv(c) ==
    /\ pc[c] = "init_env"
    /\ env' = [env EXCEPT ![c] =
                 [v \in DOMAIN environ \cup {"LD_LIBRARY_PATH"} |->
                     IF v = "LD_LIBRARY_PATH"
                     THEN ws_library_path[c] \o ":"
                            \o dict_get(environ, "LD_LIBRARY_PATH", "")
                     ELSE environ[v]]]
    /\ pc' = [pc EXCEPT ![c] = "init_popen"]
    /\ UNCHANGED <<classVars, environ, procVars, decVars, nreq, calls,
                   ghostVars,
                   
                   executable_path, ws_library_path, decLocals, histVars,
                   outcome>>

InitPopen_FlagOnFailure(c) ==
    /\ pc[c] = "init_popen"
    /\ IF Spawnable(executable_path[c])
         THEN /\ children' = Append(children,
                                [exe |-> executable_path[c], env |-> env[c]])
              /\ _proc' = Len(children) + 1
              /\ alive' = TRUE
              /\ stdinBuf' = << >>
              /\ stdinPipe' = << >>
              /\ stdoutPipe' = << >>
              /\ dstate' = "idle"
              /\ dcount' = 0
              /\ dreq' = nreq
              /\ responses' = [k \in 1..nreq |->
                                 IF k <= Len(responses) THEN responses[k]
                                 ELSE [lines |-> << >>, done |-> FALSE]]
              /\ pc' = [pc EXCEPT ![c] = "init_set"]
              /\ UNCHANGED <<env, outcome, initFailed, _init_proc_called>>
         ELSE /\ pc' = [pc EXCEPT ![c] = "idle"]
              /\ outcome' = [outcome EXCEPT ![c] = Ended("OSError")]
              /\ env' = [env EXCEPT ![c] = << >>]
              /\ initFailed' = TRUE
              /\ _init_proc_called' = TRUE
              /\ UNCHANGED <<_proc, procVars, decVars>>
    /\ UNCHANGED <<SUPPORTED_TYPES, environ, nreq, calls,
                   abandoned,
                   executable_path, ws_library_path, decLocals, histVars>>

\* cls._proc = subprocess.Popen([executable_path], bufsize=-1, stdin=PIPE,
\*                              stdout=PIPE, env=env)
\* Popen raises OSError when the executable cannot be spawned; the exception
\* leaves init_proc before _proc and _init_proc_called are assigned.
InitPopen(c) ==
    /\ pc[c] = "init_popen"
    /\ IF Spawnable(executable_path[c])
         THEN /\ children' = Append(children,
                                [exe |-> executable_path[c], env |-> env[c]])
              /\ _proc' = Len(children) + 1
              /\ alive' = TRUE
              /\ stdinBuf' = << >>
              /\ stdinPipe' = << >>
              /\ stdoutPipe' = << >>
              /\ dstate' = "idle"
              /\ dcount' = 0
              /\ dreq' = nreq
              /\ responses' = [k \in 1..nreq |->
                                 IF k <= Len(responses) THEN responses[k]
                                 ELSE [lines |-> << >>, done |-> FALSE]]
              /\ pc' = [pc EXCEPT ![c] = "init_set"]
              /\ UNCHANGED <<env, outcome, initFailed>>
         ELSE /\ pc' = [pc EXCEPT ![c] = "idle"]
              /\ outcome' = [outcome EXCEPT ![c] = Ended("OSError")]
              /\ env' = [env EXCEPT ![c] = << >>]
              /\ initFailed' = TRUE
              /\ UNCHANGED <<_proc, procVars, decVars>>
    /\ UNCHANGED <<SUPPORTED_TYPES, _init_proc_called, environ, nreq, calls,
                   abandoned,
                   executable_path, ws_library_path, decLocals, histVars>>

\* cls._init_proc_called = True
InitSetFlag(c) ==
    /\ pc[c] = "init_set"
    /\ _init_proc_called' = TRUE
    /\ pc' = [pc EXCEPT ![c] = "idle"]
    /\ outcome' = [outcome EXCEPT ![c] = Ended("InitDone")]
    /\ env' = [env EXCEPT ![c] = << >>]
    /\ UNCHANGED <<SUPPORTED_TYPES, _proc, environ, procVars, decVars, nreq,
                   calls, ghostVars,
                   executable_path, ws_library_path, decLocals,
                   histVars>>

\* ------------------------------------------------------------ decode_msg
\* what a decode_msg call leaves behind when it ends
\* (msg_type and b are kept as the arguments of the last call)
ClearedLocals(c) ==
    /\ UNCHANGED <<msg_type, b>>
    /\ input_data' = [input_data EXCEPT ![c] = << >>]
    /\ result' = [result EXCEPT ![c] = << >>]
    /\ line' = [line EXCEPT ![c] = NoLine]
    /\ myReq' = [myReq EXCEPT ![c] = 0]
    /\ rtags' = [rtags EXCEPT ![c] = {}]
    /\ sync' = [sync EXCEPT ![c] = FALSE]

\* a caller enters decode_msg(msg_type, b)
CallDecodeMsg(c) ==
    /\ pc[c] = "idle"
    /\ calls < MaxCalls
    /\ \E t \in MsgTypes, payload \in Payloads :
          /\ msg_type' = [msg_type EXCEPT ![c] = t]
          /\ b' = [b EXCEPT ![c] = payload]
    /\ executable_path' = [executable_path EXCEPT ![c] = ""]
    /\ ws_library_path' = [ws_library_path EXCEPT ![c] = ""]
    /\ pc' = [pc EXCEPT ![c] = "dec_assert"]
    /\ calls' = calls + 1
    /\ UNCHANGED ghostVars
    /\ outcome' = [outcome EXCEPT ![c] = NoOutcome]
    /\ UNCHANGED <<classVars, environ, procVars, decVars, nreq, env,
                   input_data, result, line, histVars>>

DecAssert_NoAssert(c) ==
    /\ pc[c] = "dec_assert"
    /\ pc' = [pc EXCEPT ![c] = "dec_lookup"]
    /\ UNCHANGED <<classVars, environ, procVars, decVars, nreq, calls,
                   ghostVars,
                   
                   initLocals, decLocals, histVars, outcome>>

\* assert cls._init_proc_called
DecAssert(c) ==
    /\ pc[c] = "dec_assert"
    /\ IF _init_proc_called
         THEN /\ pc' = [pc EXCEPT ![c] = "dec_lookup"]
              /\ UNCHANGED <<decLocals, histVars, outcome>>
         ELSE /\ pc' = [pc EXCEPT ![c] = "idle"]
              /\ outcome' = [outcome EXCEPT ![c] = Ended("AssertionError")]
              /\ ClearedLocals(c)
    /\ UNCHANGED <<classVars, environ, procVars, decVars, nreq, calls,
                   ghostVars,
                   
                   initLocals>>

DecLookup_AfterWrite(c) ==
    /\ pc[c] = "dec_lookup"
    /\ IF msg_type[c] \notin DOMAIN SUPPORTED_TYPES
         THEN /\ stdinBuf' = stdinBuf \o struct_pack(0, Len(b[c])) \o b[c]
              /\ pc' = [pc EXCEPT ![c] = "idle"]
              /\ outcome' = [outcome EXCEPT ![c] = Ended("None")]
              /\ ClearedLocals(c)
         ELSE /\ pc' = [pc EXCEPT ![c] = "dec_pack"]
              /\ UNCHANGED <<stdinBuf, decLocals, histVars, outcome>>
    /\ UNCHANGED <<classVars, environ, children, alive, stdinPipe,
                   stdoutPipe, decVars, nreq, calls, ghostVars, initLocals>>

\* if msg_type not in cls.SUPPORTED_TYPES: return None
DecLookup(c) ==
    /\ pc[c] = "dec_lookup"
    /\ IF msg_type[c] \notin DOMAIN SUPPORTED_TYPES
         THEN /\ pc' = [pc EXCEPT ![c] = "idle"]
              /\ outcome' = [outcome EXCEPT ![c] = Ended("None")]
              /\ ClearedLocals(c)
         ELSE /\ pc' = [pc EXCEPT ![c] = "dec_pack"]
              /\ UNCHANGED <<decLocals, histVars, outcome>>
    /\ UNCHANGED <<classVars, environ, procVars, decVars, nreq, calls,
                   ghostVars,
                   
                   initLocals>>

\* input_data = struct.pack("!II", SUPPORTED_TYPES[msg_type], len(b)); += b
DecPack(c) ==
    /\ pc[c] = "dec_pack"
    /\ input_data' = [input_data EXCEPT ![c] =
            struct_pack(SUPPORTED_TYPES[msg_type[c]], Len(b[c])) \o b[c]]
    /\ pc' = [pc EXCEPT ![c] = "dec_write"]
    /\ UNCHANGED <<classVars, environ, procVars, decVars, nreq, calls,
                   ghostVars,
                   
                   initLocals, msg_type, b, result, line, histVars, outcome>>

DecWrite_Locked(c) ==
    /\ \A d \in Callers \ {c} : pc[d] \notin {"dec_flush", "dec_read", "dec_ret"}
    /\ pc[c] = "dec_write"
    /\ \/ /\ _proc # 0
          /\ stdinBuf' = stdinBuf \o input_data[c]
          /\ sync' = [sync EXCEPT ![c] =
                         /\ stdinBuf = << >>
                         /\ stdinPipe = << >>
                         /\ stdoutPipe = << >>
                         /\ dstate = "idle"]
          /\ nreq' = nreq + 1
          /\ myReq' = [myReq EXCEPT ![c] = nreq + 1]
          /\ pc' = [pc EXCEPT ![c] = "dec_flush"]
          /\ UNCHANGED <<decLocals, rtags, outcome>>
       \/ /\ _proc # 0
          /\ ~alive
          /\ pc' = [pc EXCEPT ![c] = "idle"]
          /\ outcome' = [outcome EXCEPT ![c] = Ended("IOError")]
          /\ ClearedLocals(c)
          /\ UNCHANGED <<stdinBuf, nreq>>
       \/ /\ _proc = 0
          /\ pc' = [pc EXCEPT ![c] = "idle"]
          /\ outcome' = [outcome EXCEPT ![c] = Ended("AttributeError")]
          /\ ClearedLocals(c)
          /\ UNCHANGED <<stdinBuf, nreq>>
    /\ UNCHANGED <<classVars, environ, children, alive, stdinPipe,
                   stdoutPipe, decVars, calls, ghostVars, initLocals>>

\* cls._proc.stdin.write(input_data)
\* The file object is buffered: the bytes go to its buffer.  A request larger
\* than the buffer is written through, which fails on a dead child.
DecWrite(c) ==
    /\ pc[c] = "dec_write"
    /\ \/ /\ _proc # 0
          /\ stdinBuf' = stdinBuf \o input_data[c]
          /\ sync' = [sync EXCEPT ![c] =
                         /\ stdinBuf = << >>
                         /\ stdinPipe = << >>
                         /\ stdoutPipe = << >>
                         /\ dstate = "idle"]
          /\ nreq' = nreq + 1
          /\ myReq' = [myReq EXCEPT ![c] = nreq + 1]
          /\ pc' = [pc EXCEPT ![c] = "dec_flush"]
          /\ UNCHANGED <<decLocals, rtags, outcome>>
       \/ /\ _proc # 0
          /\ ~alive
          /\ pc' = [pc EXCEPT ![c] = "idle"]
          /\ outcome' = [outcome EXCEPT ![c] = Ended("IOError")]
          /\ ClearedLocals(c)
          /\ UNCHANGED <<stdinBuf, nreq>>
       \/ /\ _proc = 0
          /\ pc' = [pc EXCEPT ![c] = "idle"]
          /\ outcome' = [outcome EXCEPT ![c] = Ended("AttributeError")]
          /\ ClearedLocals(c)
          /\ UNCHANGED <<stdinBuf, nreq>>
    /\ UNCHANGED <<classVars, environ, children, alive, stdinPipe,
                   stdoutPipe, decVars, calls, ghostVars, initLocals>>

DecFlush_DiscardStale(c) ==
    /\ pc[c] = "dec_flush"
    /\ IF alive
         THEN /\ stdinPipe' = stdinPipe \o stdinBuf
              /\ stdinBuf' = << >>
              /\ stdoutPipe' = << >>
              /\ result' = [result EXCEPT ![c] = << >>]
              /\ pc' = [pc EXCEPT ![c] = "dec_read"]
              /\ UNCHANGED <<msg_type, b, input_data, line, myReq, rtags,
                             sync, outcome>>
         ELSE /\ pc' = [pc EXCEPT ![c] = "idle"]
              /\ outcome' = [outcome EXCEPT ![c] = Ended("IOError")]
              /\ ClearedLocals(c)
              /\ UNCHANGED <<stdinPipe, stdinBuf, stdoutPipe>>
    /\ UNCHANGED <<classVars, environ, children, alive, decVars,
                   nreq, calls, ghostVars, initLocals>>

DecFlush_ResetOnError(c) ==
    /\ pc[c] = "dec_flush"
    /\ IF alive
         THEN /\ stdinPipe' = stdinPipe \o stdinBuf
              /\ stdinBuf' = << >>
              /\ result' = [result EXCEPT ![c] = << >>]
              /\ pc' = [pc EXCEPT ![c] = "dec_read"]
              /\ UNCHANGED <<msg_type, b, input_data, line, myReq, rtags,
                             sync, outcome, classVars>>
         ELSE /\ pc' = [pc EXCEPT ![c] = "idle"]
              /\ outcome' = [outcome EXCEPT ![c] = Ended("IOError")]
              /\ ClearedLocals(c)
              /\ _proc' = 0
              /\ _init_proc_called' = FALSE
              /\ UNCHANGED <<stdinPipe, stdinBuf, SUPPORTED_TYPES>>
    /\ UNCHANGED <<environ, children, alive, stdoutPipe, decVars,
                   nreq, calls, ghostVars, initLocals>>

DecFlush_NoFlush(c) ==
    /\ pc[c] = "dec_flush"
    /\ IF alive
         THEN /\ UNCHANGED <<stdinPipe, stdinBuf>>
              /\ result' = [result EXCEPT ![c] = << >>]
              /\ pc' = [pc EXCEPT ![c] = "dec_read"]
              /\ UNCHANGED <<msg_type, b, input_data, line, myReq, rtags,
                             sync, outcome>>
         ELSE /\ pc' = [pc EXCEPT ![c] = "idle"]
              /\ outcome' = [outcome EXCEPT ![c] = Ended("IOError")]
              /\ ClearedLocals(c)
              /\ UNCHANGED <<stdinPipe, stdinBuf>>
    /\ UNCHANGED <<classVars, environ, children, alive, stdoutPipe, decVars,
                   nreq, calls, ghostVars, initLocals>>

\* cls._proc.stdin.flush(); cls._proc.stdout.flush(); result = []
\* Flushing into the pipe of a dead child raises IOError (EPIPE).
DecFlush(c) ==
    /\ pc[c] = "dec_flush"
    /\ IF alive
         THEN /\ stdinPipe' = stdinPipe \o stdinBuf
              /\ stdinBuf' = << >>
              /\ result' = [result EXCEPT ![c] = << >>]
              /\ pc' = [pc EXCEPT ![c] = "dec_read"]
              /\ UNCHANGED <<msg_type, b, input_data, line, myReq, rtags,
                             sync, outcome>>
         ELSE /\ pc' = [pc EXCEPT ![c] = "idle"]
              /\ outcome' = [outcome EXCEPT ![c] = Ended("IOError")]
              /\ ClearedLocals(c)
              /\ UNCHANGED <<stdinPipe, stdinBuf>>
    /\ UNCHANGED <<classVars, environ, children, alive, stdoutPipe, decVars,
                   nreq, calls, ghostVars, initLocals>>

\* how many readline calls of this decode_msg call met end-of-stream
EofReads(list) == Cardinality({i \in DOMAIN list : list[i] = EOFLine})

\* line = cls._proc.stdout.readline()
\* if line.startswith("===___==="): break
\* result.append(line)
\* readline blocks on an empty pipe of a live child and returns "" at
\* end-of-stream.
DecReadline(c) ==
    /\ pc[c] = "dec_read"
    /\ \/ /\ stdoutPipe # << >>
          /\ LET l == Head(stdoutPipe) IN
               /\ line' = [line EXCEPT ![c] = l.txt]
               /\ stdoutPipe' = Tail(stdoutPipe)
               /\ IF startswith(l.txt, Sentinel)
                    THEN /\ pc' = [pc EXCEPT ![c] = "dec_ret"]
                         /\ UNCHANGED <<result, rtags>>
                    ELSE /\ result' = [result EXCEPT ![c] = Append(@, l.txt)]
                         /\ rtags' = [rtags EXCEPT ![c] = @ \cup {l.req}]
                         /\ UNCHANGED pc
       \/ /\ stdoutPipe = << >>
          /\ ~alive
          /\ EofReads(result[c]) < MaxEofReads
          /\ line' = [line EXCEPT ![c] = EOFLine]
          /\ IF startswith(EOFLine, Sentinel)
               THEN /\ pc' = [pc EXCEPT ![c] = "dec_ret"]
                    /\ UNCHANGED result
               ELSE /\ result' = [result EXCEPT ![c] = Append(@, EOFLine)]
                    /\ UNCHANGED pc
          /\ UNCHANGED <<stdoutPipe, rtags>>
    /\ UNCHANGED <<classVars, environ, children, alive, stdinBuf, stdinPipe,
                   decVars, nreq, calls, ghostVars,
                   initLocals, msg_type, b, input_data,
                   myReq, sync, outcome>>

DecReturn_NoneWhenEmpty(c) ==
    /\ pc[c] = "dec_ret"
    /\ outcome' = [outcome EXCEPT ![c] =
                     [kind |-> IF result[c] = << >> THEN "None" ELSE "text",
                      val |-> join(result[c]),
                      req |-> myReq[c], tags |-> rtags[c],
                      sync |-> sync[c]]]
    /\ pc' = [pc EXCEPT ![c] = "idle"]
    /\ ClearedLocals(c)
    /\ UNCHANGED <<classVars, environ, procVars, decVars, nreq, calls,
                   ghostVars,
                   
                   initLocals>>

\* return "".join(result)
DecReturn(c) ==
    /\ pc[c] = "dec_ret"
    /\ outcome' = [outcome EXCEPT ![c] =
                     [kind |-> "text", val |-> join(result[c]),
                      req |-> myReq[c], tags |-> rtags[c],
                      sync |-> sync[c]]]
    /\ pc' = [pc EXCEPT ![c] = "idle"]
    /\ ClearedLocals(c)
    /\ UNCHANGED <<classVars, environ, procVars, decVars, nreq, calls,
                   ghostVars,
                   
                   initLocals>>

\* An exception raised inside the call after the write and before the loop
\* has met its terminator (KeyboardInterrupt, a signal handler that raises):
\* decode_msg has no try/finally, so the call ends where it stands.
Interrupt(c) ==
    /\ pc[c] \in {"dec_flush", "dec_read"}
    /\ pc' = [pc EXCEPT ![c] = "idle"]
    /\ outcome' = [outcome EXCEPT ![c] = Ended("Interrupted")]
    /\ abandoned' = abandoned \cup {[req |-> myReq[c], sync |-> sync[c]]}
    /\ ClearedLocals(c)
    /\ UNCHANGED <<classVars, environ, procVars, decVars, nreq, calls,
                   initFailed, initLocals>>

\* ------------------------------------------------------------ the decoder
\* The ws_dissector program: it takes requests from its stdin in arrival
\* order and answers each with text lines followed by the sentinel line.
UnpackU32BE(bytes) ==
    bytes[1] * 16777216 + bytes[2] * 65536 + bytes[3] * 256 + bytes[4]

RequestComplete(bytes) ==
    /\ Len(bytes) >= 8
    /\ Len(bytes) >= 8 + UnpackU32BE(SubSeq(bytes, 5, 8))

DecoderAccept ==
    /\ alive
    /\ dstate = "idle"
    /\ RequestComplete(stdinPipe)
    /\ stdinPipe' = SubSeq(stdinPipe,
                           9 + UnpackU32BE(SubSeq(stdinPipe, 5, 8)),
                           Len(stdinPipe))
    /\ dreq' = dreq + 1
    /\ dcount' = 0
    /\ dstate' = "responding"
    /\ responses' = Append(responses, [lines |-> << >>, done |-> FALSE])
    /\ UNCHANGED <<classVars, environ, children, alive, stdinBuf, stdoutPipe,
                   nreq, calls, ghostVars,
                   pc, initLocals, decLocals, histVars, outcome>>

DecoderEmitLine ==
    /\ alive
    /\ dstate = "responding"
    /\ dcount < MaxLines
    /\ \E l \in NonSentinelLines :
          /\ stdoutPipe' = Append(stdoutPipe, [txt |-> l, req |-> dreq])
          /\ responses' = [responses EXCEPT ![dreq].lines = Append(@, l)]
    /\ dcount' = dcount + 1
    /\ UNCHANGED <<classVars, environ, children, alive, stdinBuf, stdinPipe,
                   dstate, dreq, nreq, calls, ghostVars,
                   pc, initLocals, decLocals,
                   histVars, outcome>>

DecoderEmitSentinel ==
    /\ alive
    /\ dstate = "responding"
    /\ stdoutPipe' = Append(stdoutPipe, [txt |-> SentinelLine, req |-> dreq])
    /\ responses' = [responses EXCEPT ![dreq].done = TRUE]
    /\ dstate' = "idle"
    /\ UNCHANGED <<classVars, environ, children, alive, stdinBuf, stdinPipe,
                   dreq, dcount, nreq, calls, ghostVars,
                   pc, initLocals, decLocals,
                   histVars, outcome>>

\* a decoder that ends a response without the sentinel line
DecoderOmitSentinel ==
    /\ alive
    /\ dstate = "responding"
    /\ dstate' = "idle"
    /\ UNCHANGED <<classVars, environ, procVars, dreq, dcount, responses,
                   nreq, calls, ghostVars,
                   pc, initLocals, decLocals, histVars, outcome>>

\* the child exits or crashes; what it already wrote stays readable
DecoderDie ==
    /\ _proc # 0
    /\ alive
    /\ alive' = FALSE
    /\ UNCHANGED <<classVars, environ, children, stdinBuf, stdinPipe,
                   stdoutPipe, decVars, nreq, calls, ghostVars, pc, initLocals,
                   decLocals, histVars, outcome>>

\* --------------------------------------------------------- specifications
\* one sequential caller, a decoder that answers every request
Next ==
    \/ \E c \in SeqCallers : CallInitProc(c)
    \/ \E c \in SeqCallers : InitCheck(c)
    \/ \E c \in SeqCallers : InitEnv(c)
    \/ \E c \in SeqCallers : InitPopen(c)
    \/ \E c \in SeqCallers : InitSetFlag(c)
    \/ \E c \in SeqCallers : CallDecodeMsg(c)
    \/ \E c \in SeqCallers : DecAssert(c)
    \/ \E c \in SeqCallers : DecLookup(c)
    \/ \E c \in SeqCallers : DecPack(c)
    \/ \E c \in SeqCallers : DecWrite(c)
    \/ \E c \in SeqCallers : DecFlush(c)
    \/ \E c \in SeqCallers : DecReadline(c)
    \/ \E c \in SeqCallers : DecReturn(c)
    \/ DecoderAccept
    \/ DecoderEmitLine
    \/ DecoderEmitSentinel

Spec == Init /\ [][Next]_vars

\* one sequential caller, a decoder that may omit the sentinel or die
NextFaulty ==
    \/ Next
    \/ DecoderOmitSentinel
    \/ DecoderDie

SpecFaulty == Init /\ [][NextFaulty]_vars

\* one sequential caller with the arguments narrowed to one supported and
\* one unsupported message type and one library path
FewArgs(c) ==
    /\ ws_library_path[c] \in {"", "/ws/lib"}
    /\ msg_type[c] \in {"", "RRC_SIB7", "UNKNOWN_TYPE"}

NextFew ==
    \/ \E c \in SeqCallers : CallInitProc(c) /\ FewArgs(c)'
    \/ \E c \in SeqCallers : InitCheck(c)
    \/ \E c \in SeqCallers : InitEnv(c)
    \/ \E c \in SeqCallers : InitPopen(c)
    \/ \E c \in SeqCallers : InitSetFlag(c)
    \/ \E c \in SeqCallers : CallDecodeMsg(c) /\ FewArgs(c)'
    \/ \E c \in SeqCallers : DecAssert(c)
    \/ \E c \in SeqCallers : DecLookup(c)
    \/ \E c \in SeqCallers : DecPack(c)
    \/ \E c \in SeqCallers : DecWrite(c)
    \/ \E c \in SeqCallers : DecFlush(c)
    \/ \E c \in SeqCallers : DecReadline(c)
    \/ \E c \in SeqCallers : DecReturn(c)
    \/ DecoderAccept
    \/ DecoderEmitLine
    \/ DecoderEmitSentinel

SpecFew == Init /\ [][NextFew]_vars

\* ... whose decode_msg call may be interrupted
NextAbandon ==
    \/ NextFew
    \/ \E c \in SeqCallers : Interrupt(c)

SpecAbandon == Init /\ [][NextAbandon]_vars

\* ... with a decoder that may omit the sentinel or die
NextLifecycle ==
    \/ NextFew
    \/ DecoderOmitSentinel
    \/ DecoderDie

SpecLifecycle == Init /\ [][NextLifecycle]_vars

\* two callers (threads) that run init_proc and decode_msg without a lock;
\* the arguments are narrowed to one executable, one library path, one
\* message type and the empty payload
ConcArgs(c) ==
    /\ executable_path[c] \in {"", "ws_dissector"}
    /\ ws_library_path[c] \in {"", "/ws/lib"}
    /\ msg_type[c] \in {"", "RRC_SIB7"}
    /\ b[c] = << >>

NextConc ==
    \/ \E c \in Callers : CallInitProc(c) /\ ConcArgs(c)'
    \/ \E c \in Callers : InitCheck(c)
    \/ \E c \in Callers : InitEnv(c)
    \/ \E c \in Callers : InitPopen(c)
    \/ \E c \in Callers : InitSetFlag(c)
    \/ \E c \in Callers : CallDecodeMsg(c) /\ ConcArgs(c)'
    \/ \E c \in Callers : DecAssert(c)
    \/ \E c \in Callers : DecLookup(c)
    \/ \E c \in Callers : DecPack(c)
    \/ \E c \in Callers : DecWrite(c)
    \/ \E c \in Callers : DecFlush(c)
    \/ \E c \in Callers : DecReadline(c)
    \/ \E c \in Callers : DecReturn(c)
    \/ DecoderAccept
    \/ DecoderEmitLine
    \/ DecoderEmitSentinel

SpecConc == Init /\ [][NextConc]_vars

\* ------------------------------------------------------------- properties
\* the catalog of section 6 of the specification
DocumentedCatalog ==
    ("RRC_UL_CCCH" :> 100) @@ ("RRC_UL_DCCH" :> 101) @@ ("RRC_DL_CCCH" :> 102)
    @@ ("RRC_DL_DCCH" :> 103) @@ ("RRC_DL_BCCH_BCH" :> 104)
    @@ ("RRC_MIB" :> 150) @@ ("RRC_SIB1" :> 151) @@ ("RRC_SIB3" :> 153)
    @@ ("RRC_SIB5" :> 155) @@ ("RRC_SIB7" :> 157) @@ ("RRC_SIB12" :> 162)
    @@ ("RRC_SIB19" :> 169) @@ ("LTE-RRC_PCCH" :> 200)
    @@ ("LTE-RRC_DL_DCCH" :> 201) @@ ("LTE-RRC_UL_DCCH" :> 202)
    @@ ("LTE-RRC_BCCH_DL_SCH" :> 203) @@ ("LTE-NAS_EPS_PLAIN" :> 250)

\* a line that is exactly the token ===___===, with or without line break
IsSentinelLine(l) == l = Sentinel \/ l = Sentinel \o <<NL>>

\* the value of four bytes read as a big-endian 32-bit integer
BigEndianValue(w, from) ==
    w[from] * 16777216 + w[from + 1] * 65536 + w[from + 2] * 256 + w[from + 3]

\* C1: once init_proc has succeeded exactly one child exists, and every
\* later step (so every later init_proc call, whatever its arguments) keeps
\* _init_proc_called, _proc and the spawned children with their
\* environments as they are.
C1_FirstInitWins ==
    /\ [](Len(children) <= 1 /\ (_init_proc_called => Len(children) = 1))
    /\ [][_init_proc_called =>
            /\ _init_proc_called'
            /\ _proc' = _proc
            /\ children' = children]_vars

\* a second init_proc call with another executable and another library
\* path has returned after the first one succeeded
C1_Witness ==
    /\ outcome[1].kind = "InitNoop"
    /\ _init_proc_called
    /\ Len(children) = 1
    /\ executable_path[1] # children[1].exe
    /\ children[1].env["LD_LIBRARY_PATH"] #
          ws_library_path[1] \o ":" \o dict_get(environ, "LD_LIBRARY_PATH", "")

\* C2: in the Ready state a decode_msg call whose msg_type is not a key of
\* SUPPORTED_TYPES takes only the assert and lookup steps, ends with None,
\* and none of its steps changes the stdin buffer, either pipe, _proc or
\* _init_proc_called.
C2_UnsupportedTouchesNothing ==
    /\ [](\A c \in Callers :
            pc[c] \in {"dec_pack", "dec_write", "dec_flush", "dec_read",
                       "dec_ret"} => msg_type[c] \in DOMAIN SUPPORTED_TYPES)
    /\ [][\A c \in Callers :
            (/\ pc[c] \in {"dec_assert", "dec_lookup"}
             /\ _init_proc_called
             /\ msg_type[c] \notin DOMAIN SUPPORTED_TYPES
             /\ pc'[c] # pc[c])
            => /\ pc'[c] \in {"dec_lookup", "idle"}
               /\ pc'[c] = "idle" => outcome'[c].kind = "None"
               /\ UNCHANGED <<stdinBuf, stdinPipe, stdoutPipe, _proc,
                              _init_proc_called, children, alive>>]_vars

C2_Witness ==
    /\ outcome[1].kind = "None"
    /\ msg_type[1] = "UNKNOWN_TYPE"
    /\ b[1] = <<1, 128, 0>>
    /\ _init_proc_called
    /\ _proc = 1

\* C3: a decode_msg call made while _init_proc_called is false ends at the
\* assert with AssertionError, for every msg_type and payload, leaving the
\* stdin buffer and both pipes unchanged; no call gets past the assert, or
\* ends with None or a text, while _init_proc_called is false.
C3_DecodeBeforeInitAsserts ==
    /\ [](\A c \in Callers :
            /\ pc[c] \in {"dec_lookup", "dec_pack", "dec_write", "dec_flush",
                          "dec_read", "dec_ret"} => _init_proc_called
            /\ outcome[c].kind \in {"None", "text"} => _init_proc_called)
    /\ [][\A c \in Callers :
            (pc[c] = "dec_assert" /\ ~_init_proc_called /\ pc'[c] # pc[c])
            => /\ pc'[c] = "idle"
               /\ outcome'[c].kind = "AssertionError"
               /\ UNCHANGED <<stdinBuf, stdinPipe, stdoutPipe>>]_vars

C3_Witness ==
    /\ outcome[1].kind = "AssertionError"
    /\ msg_type[1] = "RRC_SIB7"
    /\ b[1] = <<1, 128, 0>>
    /\ ~_init_proc_called

\* C4: when a decode_msg call for a supported type starts on a quiet
\* channel and the decoder has answered its request with N lines that are
\* not the sentinel line followed by the sentinel line, the call returns
\* those N lines concatenated in order (the empty text for N = 0).
C4_ReturnsTheLines ==
    \A c \in Callers :
        (/\ outcome[c].kind = "text"
         /\ outcome[c].sync
         /\ outcome[c].req \in 1..Len(responses)
         /\ responses[outcome[c].req].done)
        => outcome[c].val = join(responses[outcome[c].req].lines)

\* C5: the read loop ends only on a line that is exactly the sentinel
\* token; a readline that yields any other line appends it to result and
\* stays in the loop.
C5_StopsOnlyOnExactSentinel ==
    /\ [](\A c \in Callers : pc[c] = "dec_ret" => IsSentinelLine(line[c]))
    /\ [][\A c \in Callers :
            (/\ pc[c] = "dec_read"
             /\ stdoutPipe # << >>
             /\ stdoutPipe' = Tail(stdoutPipe)
             /\ ~IsSentinelLine(Head(stdoutPipe).txt))
            => /\ pc'[c] = "dec_read"
               /\ result'[c] = Append(result[c], Head(stdoutPipe).txt)]_vars

\* C6: after the write of a decode_msg call for a supported type the stdin
\* buffer holds exactly 8 + len(b) bytes: the type code and len(b) as
\* big-endian 32-bit integers, then b; RRC_SIB7 with 01 80 00 gives
\* 00 00 00 9D 00 00 00 03 01 80 00.  The flush moves exactly these bytes to
\* the end of the pipe and leaves nothing in the buffer.
C6_Wire(w, c) ==
    /\ Len(w) = 8 + Len(b[c])
    /\ \A i \in 1..Len(w) : w[i] \in 0..255
    /\ BigEndianValue(w, 1) = SUPPORTED_TYPES[msg_type[c]]
    /\ BigEndianValue(w, 5) = Len(b[c])
    /\ SubSeq(w, 9, Len(w)) = b[c]
    /\ (msg_type[c] = "RRC_SIB7" /\ b[c] = <<1, 128, 0>>)
         => w = <<0, 0, 0, 157, 0, 0, 0, 3, 1, 128, 0>>

C6_RequestBytes ==
    /\ [](\A c \in Callers : pc[c] = "dec_flush" => C6_Wire(stdinBuf, c))
    /\ [][\A c \in Callers :
            (pc[c] = "dec_flush" /\ pc'[c] = "dec_read")
            => /\ Len(stdinPipe') = Len(stdinPipe) + 8 + Len(b[c])
               /\ C6_Wire(SubSeq(stdinPipe', Len(stdinPipe) + 1,
                                 Len(stdinPipe')), c)
               /\ SubSeq(stdinPipe', 1, Len(stdinPipe)) = stdinPipe
               /\ stdinBuf' = << >>]_vars

C6_Witness ==
    /\ pc[1] = "dec_read"
    /\ msg_type[1] = "RRC_SIB7"
    /\ b[1] = <<1, 128, 0>>
    /\ stdinPipe = <<0, 0, 0, 157, 0, 0, 0, 3, 1, 128, 0>>
    /\ stdinBuf = << >>

\* C7: SUPPORTED_TYPES is the documented catalog of 17 names, each with one
\* code, the code packed into a request is the documented code of its
\* msg_type, and no step changes the table.
C7_CatalogIsDocumented ==
    /\ [](/\ SUPPORTED_TYPES = DocumentedCatalog
          /\ Cardinality(DOMAIN SUPPORTED_TYPES) = 17
          /\ \A c \in Callers :
                pc[c] = "dec_write" =>
                    BigEndianValue(input_data[c], 1)
                        = DocumentedCatalog[msg_type[c]])
    /\ [][SUPPORTED_TYPES' = SUPPORTED_TYPES]_vars

C7_Witness ==
    /\ pc[1] = "dec_write"
    /\ msg_type[1] = "RRC_SIB3"
    /\ SubSeq(input_data[1], 1, 4) = <<0, 0, 0, 153>>

\* C8: a flush into the pipe of a dead child, and a readline that meets
\* end-of-stream before a sentinel line, end the decode_msg call with an
\* I/O error: the call neither goes on reading nor returns a text.
C8_DeadPipeSurfaces ==
    [][\A c \in Callers :
        /\ (pc[c] \in {"dec_write", "dec_flush"} /\ ~alive /\ pc'[c] = "idle")
            => outcome'[c].kind = "IOError"
        /\ (/\ pc[c] = "dec_read"
            /\ ~alive
            /\ stdoutPipe = << >>
            /\ (pc'[c] # pc[c] \/ line'[c] # line[c]
                   \/ result'[c] # result[c]))
            => /\ pc'[c] = "idle"
               /\ outcome'[c].kind = "IOError"]_vars

\* C9: a decode_msg call for a supported type leaves its read loop only
\* after the decoder has emitted the sentinel line for the call's request.
C9_NoReturnWithoutSentinel ==
    \A c \in Callers :
        pc[c] = "dec_ret" =>
            /\ myReq[c] \in 1..Len(responses)
            /\ responses[myReq[c]].done

\* C10: with one sequential caller, once the decoder has answered every
\* request written so far with one sentinel-terminated response, a text
\* returned for the k-th request written is the k-th response, made only
\* of lines of that response.
C10_KthCallGetsKthResponse ==
    (/\ Len(responses) = nreq
     /\ \A k \in 1..Len(responses) : responses[k].done)
    => \A c \in Callers :
         outcome[c].kind = "text" =>
            /\ outcome[c].req \in 1..Len(responses)
            /\ outcome[c].val = join(responses[outcome[c].req].lines)
            /\ outcome[c].tags \subseteq {outcome[c].req}

\* C11: at most one decoder process is ever spawned, whatever the
\* interleaving of the callers' init_proc calls.
C11_AtMostOneSpawn == Len(children) <= 1

\* C12 (as claimed): once an init_proc call has failed to spawn the
\* executable, the layer never becomes Ready and no call returns a text.
C12_FailedInitIsFatal ==
    initFailed =>
        /\ ~_init_proc_called
        /\ \A c \in Callers : outcome[c].kind # "text"

\* C12 (amended): an init_proc call whose executable cannot be spawned ends
\* with the startup error and leaves the layer Uninitialized: no child,
\* _proc None, _init_proc_called false; as long as no init_proc call has
\* succeeded since, no child exists and _proc is None.
C12_FailedInitLeavesUninitialized ==
    /\ [](~_init_proc_called /\ (\A c \in Callers : pc[c] # "init_set")
            => _proc = 0 /\ children = << >>)
    /\ [][\A c \in Callers :
            (/\ pc[c] = "init_popen"
             /\ ~Spawnable(executable_path[c])
             /\ pc'[c] # pc[c])
            => /\ pc'[c] = "idle"
               /\ outcome'[c].kind = "OSError"
               /\ ~_init_proc_called'
               /\ UNCHANGED <<_proc, _init_proc_called, children, alive,
                              stdinBuf, stdinPipe, stdoutPipe>>]_vars

\* after a failed init_proc a later init_proc succeeded and a decode_msg
\* call returned a text
C12_Witness ==
    /\ initFailed
    /\ _init_proc_called
    /\ _proc = 1
    /\ outcome[1].kind = "text"

\* C13: decode_msg takes no lock: a caller standing at its write, its flush
\* or (with a line in the pipe) its readline can take that step whatever
\* the position of the other caller, also between the other caller's write
\* and the end of its read loop.
C13_NoSerialization ==
    \A c \in Callers :
        /\ (pc[c] = "dec_write" /\ _proc # 0) => ENABLED DecWrite(c)
        /\ pc[c] = "dec_flush" => ENABLED DecFlush(c)
        /\ (pc[c] = "dec_read" /\ stdoutPipe # << >>)
              => ENABLED DecReadline(c)

\* both requests were written before either response was read, and each
\* caller returned the response to the other caller's request
C13_Witness ==
    /\ outcome[1].kind = "text"
    /\ outcome[2].kind = "text"
    /\ outcome[1].req # outcome[2].req
    /\ outcome[1].tags = {outcome[2].req}
    /\ outcome[2].tags = {outcome[1].req}
    /\ outcome[1].val = TextLine
    /\ outcome[2].val = TextLine \o TextLine
    /\ \A k \in 1..Len(responses) :
          \A i \in 1..Len(responses[k].lines) :
             responses[k].lines[i] = TextLine

\* C14: with one sequential caller at most one request is in flight: when
\* a request has just been written every earlier request has been answered
\* and its response read up to its sentinel line (nothing buffered, both
\* pipes empty, decoder idle), and once a call has returned no line of its
\* response is in the stdout pipe.
C14_OneRequestInFlight ==
    \A c \in Callers :
        /\ pc[c] = "dec_flush" =>
              /\ sync[c]
              /\ Len(responses) = myReq[c] - 1
              /\ \A k \in 1..Len(responses) : responses[k].done
        /\ outcome[c].kind = "text" =>
              /\ outcome[c].req \in 1..Len(responses)
              /\ responses[outcome[c].req].done
              /\ \A i \in 1..Len(stdoutPipe) :
                    stdoutPipe[i].req # outcome[c].req

\* C15: when a decode_msg call that started on a quiet channel is abandoned
\* after its write and before its read loop met a terminator, the text the
\* next decode_msg call returns is made of lines of the abandoned
\* request's response only (a run of consecutive lines of it, possibly
\* none), never of lines of its own response.
C15_AbandonDesynchronizes ==
    \A c \in Callers :
        (/\ outcome[c].kind = "text"
         /\ [req |-> outcome[c].req - 1, sync |-> TRUE] \in abandoned)
        => LET a == outcome[c].req - 1 IN
             /\ outcome[c].tags \subseteq {a}
             /\ a \in 1..Len(responses)
             /\ \E i \in 1..(Len(responses[a].lines) + 1) :
                  \E j \in 0..Len(responses[a].lines) :
                     outcome[c].val = join(SubSeq(responses[a].lines, i, j))

\* the call after an abandoned one returned the abandoned response, while
\* the decoder answered its own request with another text
C15_Witness ==
    /\ outcome[1].kind = "text"
    /\ outcome[1].req = 2
    /\ abandoned = {[req |-> 1, sync |-> TRUE]}
    /\ outcome[1].tags = {1}
    /\ outcome[1].val = TextLine
    /\ Len(responses) = 2
    /\ responses[2].done
    /\ responses[2].lines = <<TextLine, TextLine>>

C17_WriteFlushRead ==
    \A c \in Callers :
        /\ pc[c] \in {"dec_assert", "dec_lookup", "dec_pack", "dec_write",
                      "dec_flush"}
              => line[c] = NoLine /\ result[c] = << >>
        /\ pc[c] \in {"dec_read", "dec_ret"}
              => /\ stdinBuf = << >>
                 /\ dreq >= myReq[c] \/ RequestComplete(stdinPipe)
        /\ outcome[c].kind = "text" => stdinBuf = << >>

C17_Witness ==
    /\ pc[1] = "dec_read"
    /\ line[1] = TextLine
    /\ result[1] = <<TextLine>>
    /\ stdinBuf = << >>
    /\ stdinPipe = << >>
    /\ dreq = myReq[1]

\* C18: the environment of every spawned child is the host's with
\* LD_LIBRARY_PATH set to the ws_library_path of the spawning call, ":" and
\* the host's LD_LIBRARY_PATH (nothing when the host has none); no step
\* changes the host's environment.
C18_ChildEnvironment ==
    /\ [](\A k \in 1..Len(children) :
            /\ DOMAIN children[k].env = DOMAIN environ \cup {"LD_LIBRARY_PATH"}
            /\ \A v \in DOMAIN environ \ {"LD_LIBRARY_PATH"} :
                  children[k].env[v] = environ[v])
    /\ [][\A c \in Callers :
            (pc[c] = "init_popen" /\ pc'[c] = "init_set")
            => /\ Len(children') = Len(children) + 1
               /\ children'[Len(children')].env["LD_LIBRARY_PATH"] =
                     IF "LD_LIBRARY_PATH" \in DOMAIN environ
                     THEN ws_library_path[c] \o ":"
                            \o environ["LD_LIBRARY_PATH"]
                     ELSE ws_library_path[c] \o ":"]_vars
    /\ [][environ' = environ]_vars

C18_Witness ==
    /\ _init_proc_called
    /\ Len(children) = 1
    /\ "LD_LIBRARY_PATH" \in DOMAIN environ
    /\ environ["LD_LIBRARY_PATH"] = "/usr/lib"
    /\ children[1].env["LD_LIBRARY_PATH"] = "/alt/lib:/usr/lib"
    /\ children[1].env["PATH"] = "/bin"

\* C19: a decode_msg call that returns (rather than raises) returns a text
\* exactly when its msg_type is a key of SUPPORTED_TYPES and None exactly
\* when it is not; a response of zero lines gives the empty text.
C19_OutcomesNotConfused ==
    \A c \in Callers :
        outcome[c].kind \in {"None", "text"} =>
            /\ outcome[c].kind = "text"
                 <=> msg_type[c] \in DOMAIN SUPPORTED_TYPES
            /\ outcome[c].kind = "None" => outcome[c].val = << >>

C19_Witness ==
    /\ outcome[1].kind = "text"
    /\ outcome[1].val = << >>
    /\ msg_type[1] = "RRC_SIB7"
    /\ outcome[1].req = 1
    /\ responses[1].lines = << >>
    /\ responses[1].done

====
